---- MODULE Spec2Model ----
(***************************************************************************)
(* State-machine model of the "Transfer Model" dashboard (src/app.py).     *)
(*                                                                         *)
(* The script is re-run top to bottom on every user interaction (a render  *)
(* pass).  A pass reads KPIs, the site list and the material summary,      *)
(* runs at most one button handler, and may mutate the database through a  *)
(* stored procedure.  fetch_sites and fetch_material_summary are wrapped   *)
(* in a process-wide read cache with a 30 second time-to-live.             *)
(***************************************************************************)
EXTENDS Integers, Sequences, FiniteSets, TLC

\* ---- bounds of the model ----
MaxMutations == 2        \* committed mutations explored per behaviour
TickSeconds == 15        \* seconds that pass in one step of the clock

\* ---- program constants ----
TTL == 30                \* @st.cache_data(ttl=30)

Users == {"u1", "u2"}
Operators == {"u1"}      \* sessions that press buttons; the others only view
Deltas == {0, 20}        \* values typed into "MT to move (annual)"
CachedFns == {"fetch_sites", "fetch_material_summary"}
Buttons == {"none", "move", "reset_site", "reset_all"}

VARIABLES
    rf_static,     \* the rf_static table: a set of rows
    dbVer,         \* number of mutations committed so far
    cache,         \* st.cache_data storage: fn -> <<>> or <<entry>>
    lock,          \* per-function compute lock of the cache: <<>> or <<user>>
    clock,         \* history of fetch_sites(): what its last call returned and
                   \* the seconds since its query last ran, while that call is
                   \* still inside the time-to-live window with no clear since
    pc,            \* per user: position of the script run
    button,        \* per user: the button whose press started this run
    sel,           \* per user: indices chosen in the three select boxes
    delta_mt,      \* per user: value of the number input
    sites,         \* per user: the dataframe returned by fetch_sites()
    keys,          \* per user: from_key, to_key, sel_key
    res,           \* per user: what the last mutating procedure returned
    pending,       \* per user: a query result not yet written to the cache
    clearedVer,    \* history: newest mutation whose cache clear has completed
    page,          \* per user: elements emitted by the current run
    hist           \* per user: history of the current interaction

vars == <<rf_static, dbVer, cache, lock, clock, pc, button, sel,
          delta_mt, sites, keys, res, pending, clearedVer, page, hist>>

\* ---------------------------------------------------------------------
\* The database (an external collaborator; tables and query results)
\* ---------------------------------------------------------------------

Row(k, n, a, mt) ==
    [site_key |-> k, from_facility |-> n, address |-> a,
     mt_total |-> mt, mt_total_override |-> <<>>]

\* Contents the rf_static table may have when the dashboard starts.
Tables ==
    { {},
      {Row("A", "SiteA", "1 Main St", 100), Row("B", "SiteB", "2 Oak Ave", 50)},
      {Row("A", "Depot", "1 Main St", 100), Row("B", "Depot", "1 Main St", 50)},
      {Row("A", "Yard -- East", "Dock", 100), Row("B", "Yard", "East -- Dock", 50)} }

\* Collation order of the facility names used above ("order by name").
NameRank(n) ==
    CASE n = "Depot" -> 1
      [] n = "SiteA" -> 2
      [] n = "SiteB" -> 3
      [] n = "Yard" -> 4
      [] n = "Yard -- East" -> 5

\* coalesce(mt_total_override, mt_total)
Coalesce(o, b) == IF o = <<>> THEN b ELSE o[1]

MtCurrent(tbl, k) ==
    LET r == CHOOSE x \in tbl : x.site_key = k
    IN  Coalesce(r.mt_total_override, r.mt_total)

\* The sequences that list every element of S once, by ascending name.
\* Rows with equal names come in either order: SQL leaves ties open.
OrderedByName(S) ==
    { s \in [1..Cardinality(S) -> S] :
        /\ \A i, j \in 1..Cardinality(S) : i # j => s[i] # s[j]
        /\ \A i, j \in 1..Cardinality(S) :
              i < j => NameRank(s[i].name) <= NameRank(s[j].name) }

\* select site_key, from_facility as name, address, avg(mt_total) as mt_total
\* from rf_static group by site_key, from_facility, address order by name
\* (one rf_static row per group here, so avg(mt_total) is that row's mt_total)
SitesQuery(tbl) ==
    OrderedByName({ [site_key |-> r.site_key, name |-> r.from_facility,
                     address |-> r.address, mt_total |-> r.mt_total] : r \in tbl })

\* select * from rf_site_summary_display: the view "showing effects of
\* material moves", one row per facility with baseline and current tonnage.
\* Kept as a set: no handler reads the order of this table.
SummaryQuery(tbl) ==
    { [site_key |-> r.site_key, mt_total |-> r.mt_total,
       mt_current |-> Coalesce(r.mt_total_override, r.mt_total)] : r \in tbl }

\* select ..., mt_total, coalesce(mt_total_override, mt_total) as mt_current
\* from rf_static where site_key = :site_key
RowsForSiteQuery(tbl, k) ==
    { [site_key |-> r.site_key, mt_total |-> r.mt_total,
       mt_current |-> Coalesce(r.mt_total_override, r.mt_total)] :
      r \in { x \in tbl : x.site_key = k } }

SetOverride(tbl, k, o) ==
    { IF r.site_key = k THEN [r EXCEPT !.mt_total_override = o] ELSE r : r \in tbl }

\* move_material_between_sites(from_key, to_key, delta): the move is
\* recorded in the override column of both sites.
MoveApplies(tbl, f, t, d) ==
    /\ \E r \in tbl : r.site_key = f
    /\ \E r \in tbl : r.site_key = t
    /\ MtCurrent(tbl, f) >= d

MoveTable(tbl, f, t, d) ==
    IF f = t THEN tbl
    ELSE SetOverride(SetOverride(tbl, f, <<MtCurrent(tbl, f) - d>>),
                     t, <<MtCurrent(tbl, t) + d>>)

\* The row the procedure returns: from_before, from_after, to_before, to_after
MoveRow(tbl, f, t, d) ==
    << MtCurrent(tbl, f), MtCurrent(MoveTable(tbl, f, t, d), f),
       MtCurrent(tbl, t), MtCurrent(MoveTable(tbl, f, t, d), t) >>

\* reset_site_override(k) / reset_all_overrides(): clear the override
\* columns and return the number of rows reset.
ResetTable(tbl, ks) ==
    { IF r.site_key \in ks THEN [r EXCEPT !.mt_total_override = <<>>] ELSE r : r \in tbl }

ResetCount(tbl, ks) ==
    Cardinality({ r \in tbl : r.site_key \in ks /\ r.mt_total_override # <<>> })

AllKeys(tbl) == { r.site_key : r \in tbl }

\* ---------------------------------------------------------------------
\* The read cache (@st.cache_data(ttl=30))
\* ---------------------------------------------------------------------

Min(a, b) == IF a < b THEN a ELSE b
Max(a, b) == IF a > b THEN a ELSE b

\* A time-to-live test that still serves an entry at exactly 30 seconds.
LiveInclusive(e) == e.age <= TTL

\* An entry answers a call while it is younger than the time-to-live.
Live(e) == e.age < TTL

Hit(c, q) == c[q] # <<>> /\ Live(c[q][1])

EmptyCache == [q \in CachedFns |-> <<>>]

\* st.cache_data.clear(): every entry of every cached function is dropped.
Cleared(c) == EmptyCache

\* What the cache holds, as a caller can observe it: per function, the
\* row-set of its entry.
Contents(c) == [q \in CachedFns |-> IF c[q] = <<>> THEN <<>> ELSE <<c[q][1].val>>]

\* The cached function a position of the script is in.
Fn(p) == IF p \in {"sites", "sites_query", "sites_store"}
         THEN "fetch_sites" ELSE "fetch_material_summary"

\* ---------------------------------------------------------------------
\* Page elements, labels and the history of one interaction
\* ---------------------------------------------------------------------

Elem(kind, msg, nums) == [kind |-> kind, msg |-> msg, nums |-> nums]

Call(op, a, b) == [op |-> op, a |-> a, b |-> b]

\* sites["label"] = sites["name"] + " - " + sites["address"]
\* (the separator is written with an ASCII dash here)
Label(r) == r.name \o " -- " \o r.address

\* sites.loc[sites["label"] == label, "site_key"].iat[0]: the first match
KeyOfLabel(df, label) ==
    LET i == CHOOSE n \in 1..Len(df) :
                 /\ Label(df[n]) = label
                 /\ \A m \in 1..(n - 1) : Label(df[m]) # label
    IN  df[i].site_key

\* A validation that lets an amount of zero through.
ValidLoose(f, t, d) == d >= 0 /\ f # t

\* delta_mt <= 0 and from_key == to_key are refused before call_move.
Valid(f, t, d) == d > 0 /\ f # t

\* No earlier fetch_sites() call that a later one could repeat.
NoCall == [since |-> TTL, last |-> <<>>]

FreshHist(c) ==
    [log |-> <<>>, emitted |-> {}, snap |-> Contents(c), filled |-> {},
     hits |-> {}, outcome |-> "none", cleared |-> FALSE, rerun |-> FALSE,
     stale |-> FALSE, staleAfterClear |-> FALSE, loaded |-> FALSE]

NoRes == [ok |-> FALSE, row |-> <<>>, ver |-> 0]

\* ---------------------------------------------------------------------
\* Initial states
\* ---------------------------------------------------------------------

InitCommon ==
    /\ dbVer = 0
    /\ cache = EmptyCache
    /\ lock = [q \in CachedFns |-> <<>>]
    /\ clock = NoCall
    /\ button = [u \in Users |-> "none"]
    /\ sel = [u \in Users |-> [from |-> 0, to |-> 0, reset |-> 0]]
    /\ delta_mt = [u \in Users |-> 0]
    /\ sites = [u \in Users |-> <<>>]
    /\ keys = [u \in Users |-> [from |-> "", to |-> "", reset |-> ""]]
    /\ res = [u \in Users |-> NoRes]
    /\ pending = [u \in Users |-> <<>>]
    /\ clearedVer = 0
    /\ page = [u \in Users |-> {}]
    /\ hist = [u \in Users |-> FreshHist(EmptyCache)]

\* One browser session.
Init ==
    /\ rf_static \in Tables
    /\ pc = [u \in Users |-> IF u = "u1" THEN "idle" ELSE "off"]
    /\ InitCommon

\* Two browser sessions on the same process and database.
InitMulti ==
    /\ rf_static \in { T \in Tables : \E r \in T : r.from_facility = "SiteA" }
    /\ pc = [u \in Users |-> "idle"]
    /\ InitCommon

\* ---------------------------------------------------------------------
\* The render pass
\* ---------------------------------------------------------------------

\* An uncaught exception ends the script run; Streamlit shows the exception.
Abort(u, msg, h) ==
    /\ pc' = [pc EXCEPT ![u] = "idle"]
    /\ page' = [page EXCEPT ![u] = @ \cup {Elem("exception", msg, <<>>)}]
    /\ hist' = [hist EXCEPT ![u] =
                  [h EXCEPT !.emitted = @ \cup {Elem("exception", msg, <<>>)}]]

\* A user interaction (page load, widget change, button press) starts a run.
\* Any query of the run may fail: the database is reached over the network.
StartPass(u) ==
    /\ pc[u] = "idle"
    /\ pc' = [pc EXCEPT ![u] = "totals"]
    /\ page' = [page EXCEPT ![u] = {}]
    /\ hist' = [hist EXCEPT ![u] = [FreshHist(cache) EXCEPT !.loaded = hist[u].loaded]]
    \* what the run before left behind is not read again
    /\ button' = [button EXCEPT ![u] = "none"]
    /\ sel' = [sel EXCEPT ![u] = [from |-> 0, to |-> 0, reset |-> 0]]
    /\ delta_mt' = [delta_mt EXCEPT ![u] = 0]
    /\ sites' = [sites EXCEPT ![u] = <<>>]
    /\ keys' = [keys EXCEPT ![u] = [from |-> "", to |-> "", reset |-> ""]]
    /\ res' = [res EXCEPT ![u] = NoRes]
    /\ UNCHANGED <<rf_static, dbVer, cache, lock, clock, pending, clearedVer>>

\* tot = fetch_totals(); c1.metric(...); c2.metric(...)
FetchTotals(u) ==
    /\ pc[u] = "totals"
    /\ \E ok \in BOOLEAN :
       IF ok
       THEN /\ pc' = [pc EXCEPT ![u] = "sites"]
            /\ page' = [page EXCEPT ![u] = @ \cup {Elem("kpi", "", <<>>)}]
            /\ hist' = [hist EXCEPT ![u].log = Append(@, Call("fetch_totals", "", "")),
                                    ![u].emitted = @ \cup {Elem("kpi", "", <<>>)}]
       ELSE Abort(u, "OperationalError",
                  [hist[u] EXCEPT !.log = Append(@, Call("fetch_totals", "", ""))])
    /\ UNCHANGED <<rf_static, dbVer, cache, lock, clock, button, sel,
                   delta_mt, sites, keys, res, pending, clearedVer>>

\* The value of a cached call reaches the script: fetch_sites() at the
\* top of the page, fetch_material_summary() as its last widget.
Deliver(u, q, val, h) ==
    IF q = "fetch_sites"
    THEN /\ sites' = [sites EXCEPT ![u] = val]
         /\ pc' = [pc EXCEPT ![u] = "form"]
         /\ page' = page
         /\ hist' = [hist EXCEPT ![u] = h]
    ELSE /\ sites' = sites
         /\ pc' = [pc EXCEPT ![u] = "idle"]
         /\ page' = [page EXCEPT ![u] = @ \cup {Elem("summary", "", <<>>)}]
         /\ hist' = [hist EXCEPT ![u] =
                       [h EXCEPT !.emitted = @ \cup {Elem("summary", "", <<>>)}]]

\* A cached call finds a live entry and returns it without running the query.
CacheHit(u) ==
    /\ pc[u] \in {"sites", "summary"}
    /\ LET q == Fn(pc[u]) IN
       /\ Hit(cache, q)
       /\ Deliver(u, q, cache[q][1].val,
                  [hist[u] EXCEPT
                     !.hits = @ \cup {q},
                     !.stale = @ \/ cache[q][1].ver < dbVer,
                     !.staleAfterClear = @ \/ cache[q][1].ver < clearedVer])
       /\ clock' = clock
    /\ UNCHANGED <<rf_static, dbVer, cache, lock, button, sel,
                   delta_mt, keys, res, pending, clearedVer>>

\* A cached call finds no live entry and takes the function's compute lock.
CacheMiss(u) ==
    /\ pc[u] \in {"sites", "summary"}
    /\ LET q == Fn(pc[u]) IN
       /\ ~Hit(cache, q)
       /\ lock[q] = <<>>
       /\ lock' = [lock EXCEPT ![q] = <<u>>]
       /\ pc' = [pc EXCEPT ![u] = IF q = "fetch_sites" THEN "sites_query" ELSE "summary_query"]
    /\ UNCHANGED <<rf_static, dbVer, cache, clock, button, sel, delta_mt,
                   sites, keys, res, pending, clearedVer, page, hist>>

\* pd.read_sql(q, engine) inside the cached function.
CacheQuery(u) ==
    /\ pc[u] \in {"sites_query", "summary_query"}
    /\ \E ok \in BOOLEAN : LET q == Fn(pc[u]) IN
       IF ok
       THEN /\ \E v \in (IF q = "fetch_sites" THEN SitesQuery(rf_static)
                                               ELSE {SummaryQuery(rf_static)}) :
                 pending' = [pending EXCEPT ![u] = <<[val |-> v, ver |-> dbVer]>>]
            /\ pc' = [pc EXCEPT ![u] = IF q = "fetch_sites" THEN "sites_store" ELSE "summary_store"]
            /\ hist' = [hist EXCEPT ![u].log = Append(@, Call(q, "", ""))]
            /\ UNCHANGED <<lock, page>>
       ELSE /\ lock' = [lock EXCEPT ![q] = <<>>]
            /\ pending' = pending
            /\ Abort(u, "OperationalError",
                     [hist[u] EXCEPT !.log = Append(@, Call(q, "", ""))])
    /\ UNCHANGED <<rf_static, dbVer, cache, clock, button, sel, delta_mt,
                   sites, keys, res, clearedVer>>

\* The computed value is written to the cache and returned.
CacheStore(u) ==
    /\ pc[u] \in {"sites_store", "summary_store"}
    /\ LET q == Fn(pc[u])
           v == pending[u][1] IN
       /\ cache' = [cache EXCEPT ![q] = <<[val |-> v.val, age |-> 0, ver |-> v.ver]>>]
       /\ lock' = [lock EXCEPT ![q] = <<>>]
       /\ clock' = IF q = "fetch_sites" THEN [since |-> 0, last |-> <<v.val>>] ELSE clock
       /\ Deliver(u, q, v.val, [hist[u] EXCEPT !.filled = @ \cup {q}])
    /\ pending' = [pending EXCEPT ![u] = <<>>]
    /\ UNCHANGED <<rf_static, dbVer, button, sel, delta_mt, keys, res, clearedVer>>

\* The widgets of the left column down to the "Move material" button:
\* the select boxes, the label-to-key lookups, the number input and the
\* validation of a pressed button.  The widget values of the run are
\* read here, where the script reads them; a run forced by st.rerun()
\* has no button pressed and the widget values of the run before it.
Form(u) ==
    /\ pc[u] = "form"
    /\ IF sites[u] = <<>>
       THEN \* selectbox over no options returns None; .iat[0] raises IndexError
            /\ Abort(u, "IndexError", hist[u])
            /\ UNCHANGED <<button, sel, delta_mt, keys>>
       ELSE \E b \in Buttons, d \in Deltas, f, t, r \in 1..Len(sites[u]) :
            /\ hist[u].rerun =>
                  /\ b = "none" /\ d = delta_mt[u]
                  /\ f = sel[u].from /\ t = sel[u].to /\ r = sel[u].reset
            /\ ~hist[u].loaded \/ u \notin Operators => b = "none"
            \* a widget no pressed handler reads is left at its first option
            /\ b # "move" /\ ~hist[u].rerun => f = 1 /\ t = 1 /\ d = 0
            /\ b # "reset_site" /\ ~hist[u].rerun => r = 1
            /\ button' = [button EXCEPT ![u] = b]
            /\ delta_mt' = [delta_mt EXCEPT ![u] = d]
            /\ sel' = [sel EXCEPT ![u] = [from |-> f, to |-> t, reset |-> r]]
            /\ LET fk == KeyOfLabel(sites[u], Label(sites[u][f]))
                   tk == KeyOfLabel(sites[u], Label(sites[u][t]))
                   rk == KeyOfLabel(sites[u], Label(sites[u][r]))
               IN
               /\ keys' = [keys EXCEPT ![u] = [from |-> fk, to |-> tk, reset |-> rk]]
               /\ IF b = "move" /\ ~Valid(fk, tk, d)
                  THEN LET e == Elem("error",
                                     IF d <= 0 THEN "Enter a positive MT amount."
                                     ELSE "From and To must be different sites.", <<>>)
                       IN
                       /\ pc' = [pc EXCEPT ![u] = "resets"]
                       /\ page' = [page EXCEPT ![u] = @ \cup {e}]
                       /\ hist' = [hist EXCEPT ![u].outcome = "rejected",
                                               ![u].loaded = TRUE,
                                               ![u].emitted = @ \cup {e}]
                  ELSE /\ pc' = [pc EXCEPT ![u] = IF b = "move" THEN "move_call" ELSE "resets"]
                       /\ page' = page
                       /\ hist' = [hist EXCEPT ![u].loaded = TRUE]
    /\ UNCHANGED <<rf_static, dbVer, cache, lock, clock, sites, res,
                   pending, clearedVer>>

\* An `except` branch that also clears the read cache.
MoveRaiseClears(u) ==
    /\ pc[u] = "move_call"
    /\ LET e == Elem("error", "procedure error", <<>>) IN
       /\ page' = [page EXCEPT ![u] = @ \cup {e}]
       /\ hist' = [hist EXCEPT ![u].log = Append(@, Call("call_move", keys[u].from, keys[u].to)),
                               ![u].outcome = "move_err",
                               ![u].emitted = @ \cup {e}]
    /\ pc' = [pc EXCEPT ![u] = "rows"]
    /\ cache' = Cleared(cache)
    /\ UNCHANGED <<rf_static, dbVer, lock, clock, button, sel,
                   delta_mt, sites, keys, res, pending, clearedVer>>

\* call_move raises (a business error of the procedure, or the database
\* is unreachable); the transaction is rolled back and `except` shows it.
MoveRaise(u) ==
    /\ pc[u] = "move_call"
    /\ LET e == Elem("error", "procedure error", <<>>) IN
       /\ page' = [page EXCEPT ![u] = @ \cup {e}]
       /\ hist' = [hist EXCEPT ![u].log = Append(@, Call("call_move", keys[u].from, keys[u].to)),
                               ![u].outcome = "move_err",
                               ![u].emitted = @ \cup {e}]
    /\ pc' = [pc EXCEPT ![u] = "rows"]
    /\ UNCHANGED <<rf_static, dbVer, cache, lock, clock, button, sel,
                   delta_mt, sites, keys, res, pending, clearedVer>>

\* call_move returns: the procedure ran and `with engine.begin()` committed.
\* wf: whether the returned frame has the row the f-string reads.
MoveCommit(u) ==
    /\ pc[u] = "move_call"
    /\ dbVer < MaxMutations
    /\ MoveApplies(rf_static, keys[u].from, keys[u].to, delta_mt[u])
    /\ \E wf \in BOOLEAN :
         res' = [res EXCEPT ![u] =
                   [ok |-> wf,
                    row |-> IF wf THEN MoveRow(rf_static, keys[u].from, keys[u].to, delta_mt[u])
                            ELSE <<>>,
                    ver |-> dbVer + 1]]
    /\ rf_static' = MoveTable(rf_static, keys[u].from, keys[u].to, delta_mt[u])
    /\ dbVer' = dbVer + 1
    /\ hist' = [hist EXCEPT ![u].log = Append(@, Call("call_move", keys[u].from, keys[u].to))]
    /\ pc' = [pc EXCEPT ![u] = "move_done"]
    /\ UNCHANGED <<cache, lock, clock, button, sel, delta_mt, sites, keys,
                   pending, clearedVer, page>>

\* st.success(...); st.cache_data.clear(); st.rerun().  st.rerun() ends the
\* run with a script-control exception that `except Exception` does not
\* catch, and the script starts again from the top with no button pressed.
ClearAndRerun(u, e, out) ==
    /\ cache' = Cleared(cache)
    /\ clock' = NoCall
    /\ clearedVer' = Max(clearedVer, res[u].ver)
    /\ pc' = [pc EXCEPT ![u] = "totals"]
    /\ page' = [page EXCEPT ![u] = {}]
    /\ hist' = [hist EXCEPT ![u] =
                  [@ EXCEPT !.emitted = @ \cup {e}, !.outcome = out,
                            !.cleared = TRUE, !.rerun = TRUE,
                            !.snap = Contents(Cleared(cache)),
                            !.filled = {}, !.hits = {}]]

\* The f-string of st.success reads res['from_before'][0] ...: it raises
\* when the frame lacks the row, inside the try block, before the clear.
MoveFormatError(u) ==
    /\ pc[u] = "move_done"
    /\ ~res[u].ok
    /\ LET e == Elem("error", "KeyError", <<>>) IN
       /\ page' = [page EXCEPT ![u] = @ \cup {e}]
       /\ hist' = [hist EXCEPT ![u].outcome = "move_fmt_err",
                               ![u].emitted = @ \cup {e}]
    /\ pc' = [pc EXCEPT ![u] = "rows"]
    /\ UNCHANGED <<rf_static, dbVer, cache, lock, clock, button, sel,
                   delta_mt, sites, keys, res, pending, clearedVer>>

MoveSuccess(u) ==
    /\ pc[u] = "move_done"
    /\ res[u].ok
    /\ ClearAndRerun(u, Elem("success", "Moved", res[u].row), "move_ok")
    /\ UNCHANGED <<rf_static, dbVer, lock, button, sel, delta_mt, sites,
                   keys, res, pending>>

\* st.write("Updated rows for 'From' site:"); st.dataframe(fetch_rows_for_site(...))
\* after the try/except of the move handler, outside any try block.
FetchRows(u) ==
    /\ pc[u] = "rows"
    /\ LET c == Call("fetch_rows_for_site", keys[u].from, "")
           rows == RowsForSiteQuery(rf_static, keys[u].from)
           e == Elem("rows_from", keys[u].from,
                     IF rows = {} THEN <<>>
                     ELSE LET r == CHOOSE x \in rows : TRUE
                          IN  <<r.mt_total, r.mt_current>>)
       IN
       \E ok \in BOOLEAN :
       IF ok
       THEN /\ pc' = [pc EXCEPT ![u] = "resets"]
            /\ page' = [page EXCEPT ![u] = @ \cup {e}]
            /\ hist' = [hist EXCEPT ![u].log = Append(@, c),
                                    ![u].emitted = @ \cup {e}]
       ELSE Abort(u, "OperationalError", [hist[u] EXCEPT !.log = Append(@, c)])
    /\ UNCHANGED <<rf_static, dbVer, cache, lock, clock, button, sel,
                   delta_mt, sites, keys, res, pending, clearedVer>>

\* The site keys a pressed reset button resets.
ResetKeys(u) ==
    IF button[u] = "reset_site" THEN {keys[u].reset} ELSE AllKeys(rf_static)

ResetCallOf(u) ==
    IF button[u] = "reset_site" THEN Call("reset_site", keys[u].reset, "")
    ELSE Call("reset_all", "", "")

\* Neither reset button is pressed: the right column (the map) follows.
NoReset(u) ==
    /\ pc[u] = "resets"
    /\ button[u] \notin {"reset_site", "reset_all"}
    /\ pc' = [pc EXCEPT ![u] = "summary"]
    /\ page' = [page EXCEPT ![u] = @ \cup {Elem("map", "", <<>>)}]
    /\ hist' = [hist EXCEPT ![u].emitted = @ \cup {Elem("map", "", <<>>)}]
    /\ UNCHANGED <<rf_static, dbVer, cache, lock, clock, button, sel,
                   delta_mt, sites, keys, res, pending, clearedVer>>

\* reset_site / reset_all raises inside pd.read_sql: rolled back, shown.
ResetRaise(u) ==
    /\ pc[u] = "resets"
    /\ button[u] \in {"reset_site", "reset_all"}
    /\ LET es == {Elem("error", "procedure error", <<>>), Elem("map", "", <<>>)} IN
       /\ page' = [page EXCEPT ![u] = @ \cup es]
       /\ hist' = [hist EXCEPT ![u].log = Append(@, ResetCallOf(u)),
                               ![u].outcome = "reset_err",
                               ![u].emitted = @ \cup es]
    /\ pc' = [pc EXCEPT ![u] = "summary"]
    /\ UNCHANGED <<rf_static, dbVer, cache, lock, clock, button, sel,
                   delta_mt, sites, keys, res, pending, clearedVer>>

\* The reset procedure ran and `with engine.begin()` committed.
\* wf: whether int(r["rows"].iat[0]) can read the returned frame.
ResetCommit(u) ==
    /\ pc[u] = "resets"
    /\ button[u] \in {"reset_site", "reset_all"}
    /\ LET tbl == ResetTable(rf_static, ResetKeys(u))
           ver == IF tbl = rf_static THEN dbVer ELSE dbVer + 1
       IN
       /\ ver <= MaxMutations
       /\ rf_static' = tbl
       /\ dbVer' = ver
       /\ \E wf \in BOOLEAN :
            res' = [res EXCEPT ![u] =
                      [ok |-> wf,
                       row |-> IF wf THEN <<ResetCount(rf_static, ResetKeys(u))>> ELSE <<>>,
                       ver |-> ver]]
    /\ hist' = [hist EXCEPT ![u].log = Append(@, ResetCallOf(u))]
    /\ pc' = [pc EXCEPT ![u] = "reset_done"]
    /\ UNCHANGED <<cache, lock, clock, button, sel, delta_mt, sites, keys,
                   pending, clearedVer, page>>

\* int(r["rows"].iat[0]) raises after the commit: `except` shows it.
ResetFormatError(u) ==
    /\ pc[u] = "reset_done"
    /\ ~res[u].ok
    /\ LET es == {Elem("error", "TypeError", <<>>), Elem("map", "", <<>>)} IN
       /\ page' = [page EXCEPT ![u] = @ \cup es]
       /\ hist' = [hist EXCEPT ![u].outcome = "reset_fmt_err",
                               ![u].emitted = @ \cup es]
    /\ pc' = [pc EXCEPT ![u] = "summary"]
    /\ UNCHANGED <<rf_static, dbVer, cache, lock, clock, button, sel,
                   delta_mt, sites, keys, res, pending, clearedVer>>

\* st.success(...); st.cache_data.clear(); st.rerun().  The lines after
\* st.rerun() in the "Reset selected site" handler are never reached.
ResetSuccess(u) ==
    /\ pc[u] = "reset_done"
    /\ res[u].ok
    /\ ClearAndRerun(u, Elem("success", "Reset", res[u].row),
                     IF button[u] = "reset_site" THEN "reset_site_ok" ELSE "reset_all_ok")
    /\ UNCHANGED <<rf_static, dbVer, lock, button, sel, delta_mt, sites,
                   keys, res, pending>>

\* ---------------------------------------------------------------------
\* The environment
\* ---------------------------------------------------------------------

\* Time passes: every entry ages (ages are kept up to the time-to-live).
Tick ==
    /\ cache' = [q \in CachedFns |->
                   IF cache[q] = <<>> THEN <<>>
                   ELSE <<[cache[q][1] EXCEPT !.age = Min(@ + TickSeconds, TTL)]>>]
    /\ clock' = IF clock.since + TickSeconds >= TTL THEN NoCall
                 ELSE [clock EXCEPT !.since = @ + TickSeconds]
    /\ UNCHANGED <<rf_static, dbVer, lock, pc, button, sel, delta_mt,
                   sites, keys, res, pending, clearedVer, page, hist>>

\* One step of one session's script run.
Step(u) ==
    \/ StartPass(u)
    \/ FetchTotals(u)
    \/ CacheHit(u)
    \/ CacheMiss(u)
    \/ CacheQuery(u)
    \/ CacheStore(u)
    \/ Form(u)
    \/ MoveRaise(u)
    \/ MoveCommit(u)
    \/ MoveFormatError(u)
    \/ MoveSuccess(u)
    \/ FetchRows(u)
    \/ NoReset(u)
    \/ ResetRaise(u)
    \/ ResetCommit(u)
    \/ ResetFormatError(u)
    \/ ResetSuccess(u)

Sessions == \E u \in Users : Step(u)

Next == Sessions \/ Tick

\* One session, with time passing.
Spec == Init /\ [][Next]_vars

\* Two sessions whose runs interleave inside one time-to-live window.
SpecMulti == InitMulti /\ [][Sessions]_vars

\* ---------------------------------------------------------------------
\* Properties
\* ---------------------------------------------------------------------

Ops(u) == { hist[u].log[i].op : i \in 1..Len(hist[u].log) }

CountOp(u, op) == Cardinality({ i \in 1..Len(hist[u].log) : hist[u].log[i].op = op })

Kinds(S) == { e.kind : e \in S }

\* A "Move material" press that the validation must refuse.
Refused(u) ==
    /\ button[u] = "move"
    /\ delta_mt[u] <= 0 \/ keys[u].from = keys[u].to

\* The mt_total column of site k in a fetch_sites() frame.
TotalOf(df, k) == LET i == CHOOSE n \in 1..Len(df) : df[n].site_key = k IN df[i].mt_total

\* C1 (as claimed): after a refused "Move material" press, call_move was
\* not invoked, an error is shown, the handler made no network call, and
\* the read cache holds at the end of the pass what it held at its start.
C1_RefusedCacheAsAtStart ==
    \A u \in Users :
        Refused(u) /\ pc[u] = "idle" =>
            /\ Ops(u) \cap {"call_move", "fetch_rows_for_site"} = {}
            /\ "error" \in Kinds(page[u])
            /\ Contents(cache) = hist[u].snap

\* C1 (amended): after a refused "Move material" press, call_move is not
\* invoked, an error is shown, the handler makes no network call, causes
\* no cache clear and no rerun, and every cache entry is as at the start
\* of the pass except the entries the pass's own fetch_sites() and
\* fetch_material_summary() calls stored on a miss.
C1_RefusedCacheOnlyFilled ==
    \A u \in Users :
        Refused(u) =>
            /\ Ops(u) \cap {"call_move", "fetch_rows_for_site"} = {}
            /\ "error" \in Kinds(page[u])
            /\ ~hist[u].cleared /\ ~hist[u].rerun
            /\ \A q \in CachedFns \ hist[u].filled :
                  Contents(cache)[q] = hist[u].snap[q]

\* C1 witness: a refused press whose pass ran to its last widget and
\* filled the summary entry on the way.
C1_Witness ==
    \E u \in Users :
        /\ Refused(u) /\ pc[u] = "idle"
        /\ "summary" \in Kinds(page[u])
        /\ "fetch_material_summary" \in hist[u].filled

\* C2 (as claimed): no cached read is answered from an entry whose query
\* ran before a mutation that has committed since.
C2_NoReadOlderThanCommit ==
    \A u \in Users : ~hist[u].stale

\* C3: a fetch_sites() call made while an earlier call is less than 30
\* seconds old, with no cache clear since, returns what that call returned
\* and runs no query; any other fetch_sites() call goes on to run the query.
C3_SecondCallInWindow ==
    [][ \A u \in Users :
          pc[u] = "sites" /\ pc'[u] # "sites" =>
              IF clock.last # <<>>
              THEN /\ pc'[u] = "form"
                   /\ sites'[u] = clock.last[1]
                   /\ hist'[u].log = hist[u].log
              ELSE pc'[u] = "sites_query" ]_vars

\* C3 witness: a call answered from the cache some seconds after the
\* call that ran the query.
C3_Witness ==
    \E u \in Users :
        /\ pc[u] = "form" /\ sites[u] # <<>>
        /\ "fetch_sites" \in hist[u].hits
        /\ clock.since > 0 /\ clock.last = <<sites[u]>>

\* C4 (as claimed): once the workflow is idle again after a successful
\* move, the cache was cleared, the page was re-rendered, and the page
\* shows the confirmation with from_before, from_after, to_before, to_after.
C4_ConfirmationOnFinalPage ==
    \A u \in Users :
        /\ pc[u] = "idle" /\ hist[u].outcome = "move_ok"
        /\ "exception" \notin Kinds(page[u])
        => /\ hist[u].cleared /\ hist[u].rerun
           /\ Elem("success", "Moved", res[u].row) \in page[u]

\* C5 (as claimed): with SiteA at 100 and SiteB at 50, after a successful
\* move of 20 from A to B recorded in the override column, the first
\* fetch_sites() after the cache clear shows A at 80 and B at 70.
C5_SitesShowMovedTotals ==
    \A u \in Users :
        /\ pc[u] = "form" /\ hist[u].rerun /\ hist[u].outcome = "move_ok"
        /\ keys[u].from = "A" /\ keys[u].to = "B" /\ delta_mt[u] = 20
        /\ res[u].row = <<100, 80, 50, 70>>
        /\ MtCurrent(rf_static, "A") = 80 /\ MtCurrent(rf_static, "B") = 70
        => /\ TotalOf(sites[u], "A") = 80
           /\ TotalOf(sites[u], "B") = 70

\* C6 (as claimed): when call_move raises for a valid press, it was called
\* once, the message is shown, nothing was cleared or rerun, and the read
\* cache holds at the end of the pass what it held at its start.
C6_FailedMoveCacheAsAtStart ==
    \A u \in Users :
        hist[u].outcome = "move_err" /\ pc[u] = "idle" =>
            /\ CountOp(u, "call_move") = 1
            /\ Elem("error", "procedure error", <<>>) \in page[u]
            /\ ~hist[u].cleared /\ ~hist[u].rerun
            /\ Contents(cache) = hist[u].snap

\* C6 (amended): when call_move raises for a valid press, it is called
\* once, the message is shown, nothing is cleared or rerun, and every
\* cache entry is as at the start of the pass except the entries the
\* pass's own fetch_sites() and fetch_material_summary() calls stored on
\* a miss.
C6_FailedMoveCacheOnlyFilled ==
    \A u \in Users :
        hist[u].outcome = "move_err" =>
            /\ CountOp(u, "call_move") = 1
            /\ Elem("error", "procedure error", <<>>) \in page[u]
            /\ ~hist[u].cleared /\ ~hist[u].rerun
            /\ \A q \in CachedFns \ hist[u].filled :
                  Contents(cache)[q] = hist[u].snap[q]

\* C6 witness: a failed move whose pass ran to its last widget with the
\* site list served from an entry that was there at the start.
C6_Witness ==
    \E u \in Users :
        /\ hist[u].outcome = "move_err" /\ pc[u] = "idle"
        /\ "summary" \in Kinds(page[u])
        /\ "fetch_sites" \in hist[u].hits

\* C7 (as claimed): a failing read query never ends the pass with an
\* uncaught exception.
C7_ReadFailureCaught ==
    \A u \in Users : Elem("exception", "OperationalError", <<>>) \notin page[u]

\* C8 (as claimed): after a successful move or single-site reset the rows
\* of the site were fetched by fetch_rows_for_site and displayed.
C8_RowsFetchedAfterSuccess ==
    \A u \in Users :
        /\ pc[u] = "idle" /\ hist[u].outcome \in {"move_ok", "reset_site_ok"}
        /\ "exception" \notin Kinds(page[u])
        => /\ "fetch_rows_for_site" \in Ops(u)
           /\ "rows_from" \in Kinds(hist[u].emitted)

C10_SelectedRowKeyPassed ==
    \A u \in Users :
        ~hist[u].rerun =>
            \A i \in 1..Len(hist[u].log) :
                LET c == hist[u].log[i] IN
                /\ c.op = "call_move" =>
                      /\ c.a = sites[u][sel[u].from].site_key
                      /\ c.b = sites[u][sel[u].to].site_key
                /\ c.op = "reset_site" =>
                      c.a = sites[u][sel[u].reset].site_key

====
